---------------------------- MODULE Spec2Model ----------------------------
(***************************************************************************)
(* A model of preprocess_svg.py: the command line of the SVG preprocessing *)
(* tool (main), the single-file processor (process_single_file,            *)
(* preprocess_svg, process_svg) and the directory walker                   *)
(* (process_directory), running against a small POSIX-like filesystem.     *)
(*                                                                         *)
(* Paths are strings of characters, so that os.path.splitext,              *)
(* os.path.dirname, os.path.join, os.path.relpath, str.endswith and the    *)
(* f-string concatenations are computed the way the code computes them.    *)
(* The current directory is the filesystem root, so a path resolves to the *)
(* sequence of its segments other than "" and ".".                         *)
(*                                                                         *)
(* picosvg and the geometry library are outside the program: each          *)
(* process_single_file call is given a fate, the step of it (if any) that  *)
(* the environment makes fail.                                             *)
(***************************************************************************)
EXTENDS Integers, Sequences, FiniteSets, TLC

VARIABLES
    args,           \* the parsed command line (argparse namespace)
    fs,             \* the filesystem: resolved path -> node
    fs0,            \* the filesystem when the program started (history)
    pc,             \* "start", "walk" or "exited"
    exit_status,    \* -1 while running, else the process exit status
    uncaught,       \* TRUE when the process died of an uncaught exception
    mode_run,       \* which of process_single_file / process_directory main invoked
    success_count,  \* process_directory's success_count
    failure_count,  \* process_directory's failure_count
    stack,          \* os.walk: directories still to be visited, next first
    cur_root,       \* os.walk: the directory whose files are being looped over
    cur_files,      \* os.walk: file names of cur_root not yet looped over
    attempted,      \* resolved input paths handed to process_single_file (history)
    calls,          \* number of process_single_file calls made (history)
    last            \* the last process_single_file call and its outcome (history)

vars == <<args, fs, fs0, pc, exit_status, uncaught, mode_run, success_count,
          failure_count, stack, cur_root, cur_files, attempted, calls, last>>

-----------------------------------------------------------------------------
(* Strings.  A string is held split at its "/" characters: the non-empty   *)
(* sequence of its segments, each a sequence of one-character strings, so  *)
(* "i/a.svg" is <<<<"i">>, <<"a", ".", "s", "v", "g">>>>, "i/" is          *)
(* <<<<"i">>, <<>>>> and "" is <<<<>>>>.  Every string has exactly one     *)
(* such form.                                                              *)

None == <<>>
EMPTY == <<<<>>>>
DOT == "."

SVG_SUFFIX == <<<<".", "s", "v", "g">>>>
PROCESSED_SUFFIX == <<<<"_", "p", "r", "o", "c", "e", "s", "s", "e", "d">>>>
CURDIR == <<<<".">>>>

Max(S) == CHOOSE x \in S : \A y \in S : y <= x
Front(q) == SubSeq(q, 1, Len(q) - 1)
Last(q) == q[Len(q)]

\* s + t
Concat(s, t) == Front(s) \o <<Last(s) \o t[1]>> \o Tail(t)

\* str.rfind within one segment, 1-based: 0 when ch does not occur
RFind(seg, ch) ==
    LET S == {i \in 1..Len(seg) : seg[i] = ch}
    IN  IF S = {} THEN 0 ELSE Max(S)

\* str.endswith, for a suffix without "/"
endswith(p, suffix) ==
    LET l == Last(p)
        x == suffix[1]
    IN  Len(l) >= Len(x) /\ SubSeq(l, Len(l) - Len(x) + 1, Len(l)) = x

\* str.startswith("/") and str.endswith("/")
StartsWithSep(p) == Len(p) > 1 /\ p[1] = <<>>
TrailingSep(p) == Len(p) > 1 /\ Last(p) = <<>>

\* str.rstrip("/") of a string that is not made of "/" only
RECURSIVE rstrip_sep(_)
rstrip_sep(p) == IF TrailingSep(p) THEN rstrip_sep(Front(p)) ELSE p

\* os.path.splitext: <<base, ext>>.  The last "." counts only when it is
\* after the last "/" and some character other than "." precedes it there.
splitext(p) ==
    LET l == Last(p)
        dotIndex == RFind(l, DOT)
    IN  IF \E k \in 1..(dotIndex - 1) : l[k] # DOT
        THEN <<Front(p) \o <<SubSeq(l, 1, dotIndex - 1)>>,
               <<SubSeq(l, dotIndex, Len(l))>>>>
        ELSE <<p, EMPTY>>

\* os.path.dirname: up to the last "/", then without trailing "/" unless
\* that leaves nothing
dirname(p) ==
    LET head == Front(p)
    IN  IF head = <<>> THEN EMPTY
        ELSE IF \A k \in 1..Len(head) : head[k] = <<>> THEN Append(head, <<>>)
        ELSE rstrip_sep(Append(head, <<>>))

\* os.path.join(a, b)
join(a, b) ==
    IF StartsWithSep(b) THEN b
    ELSE IF a = EMPTY \/ TrailingSep(a) THEN Concat(a, b)
    ELSE a \o b

\* the file the kernel resolves p to: its segments without "" and "."
Norm(p) == SelectSeq(p, LAMBDA c : c # <<>> /\ c # CURDIR[1])

\* os.path.relpath(path, start)
relpath(path, start) ==
    LET start_list == Norm(start)
        path_list == Norm(path)
        m == IF Len(start_list) < Len(path_list) THEN Len(start_list) ELSE Len(path_list)
        agree == {k \in 0..m : \A j \in 1..k : start_list[j] = path_list[j]}
        i == Max(agree)
        rel_list == [k \in 1..(Len(start_list) - i) |-> <<".", ".">>]
                    \o SubSeq(path_list, i + 1, Len(path_list))
    IN  IF rel_list = <<>> THEN CURDIR ELSE rel_list

-----------------------------------------------------------------------------
(* The filesystem.  A node is a directory or a regular file; a regular     *)
(* file is a user's SVG ("source"), a zero-length file ("empty"), an       *)
(* incomplete write ("partial"), picosvg's output ("pico") or a document   *)
(* written by save_svg ("doc").                                            *)

DirNode == [kind |-> "dir", id |-> 0, bbox |-> <<0, 0>>, ops |-> <<>>]
EmptyNode == [kind |-> "empty", id |-> 0, bbox |-> <<0, 0>>, ops |-> <<>>]
PartialNode == [kind |-> "partial", id |-> 0, bbox |-> <<0, 0>>, ops |-> <<>>]
SourceNode(i, b) == [kind |-> "source", id |-> i, bbox |-> b, ops |-> <<>>]

IsDir(f, n) == n \in DOMAIN f /\ f[n].kind = "dir"
IsFile(f, n) == n \in DOMAIN f /\ f[n].kind # "dir"
Parent(n) == Front(n)

Put(f, n, node) == [x \in DOMAIN f \cup {n} |-> IF x = n THEN node ELSE f[x]]
Del(f, n) == [x \in DOMAIN f \ {n} |-> f[x]]

\* os.path.exists
os_path_exists(f, p) ==
    LET n == Norm(p)
    IN  n \in DOMAIN f /\ (TrailingSep(p) => f[n].kind = "dir")

\* os.makedirs(p, exist_ok=True): raises when a component is a regular file
os_makedirs(f, p) ==
    LET n == Norm(p)
        prefixes == {SubSeq(n, 1, k) : k \in 1..Len(n)}
    IN  IF \E x \in prefixes : IsFile(f, x)
        THEN [fs |-> f, raised |-> TRUE]
        ELSE [fs |-> [x \in DOMAIN f \cup prefixes |->
                        IF x \in DOMAIN f THEN f[x] ELSE DirNode],
              raised |-> FALSE]

\* open(p, "w"): creates or truncates a regular file; raises on a directory
open_w(f, p) ==
    LET n == Norm(p)
    IN  IF n = <<>> \/ TrailingSep(p) \/ IsDir(f, n) \/ ~IsDir(f, Parent(n))
        THEN [fs |-> f, raised |-> TRUE]
        ELSE [fs |-> Put(f, n, EmptyNode), raised |-> FALSE]

\* os.remove: unlinks a regular file; raises on a directory or a missing file
os_remove(f, p) ==
    LET n == Norm(p)
    IN  IF IsFile(f, n) /\ ~TrailingSep(p)
        THEN [fs |-> Del(f, n), raised |-> FALSE]
        ELSE [fs |-> f, raised |-> TRUE]

\* os.path.getsize of an existing regular file
os_path_getsize(f, p) == IF f[Norm(p)].kind = "empty" THEN 0 ELSE 1

\* what the picosvg subprocess can read as an SVG document
Readable(f, p) ==
    /\ IsFile(f, Norm(p))
    /\ ~TrailingSep(p)
    /\ f[Norm(p)].kind \in {"source", "pico", "doc"}

-----------------------------------------------------------------------------
(* The geometry library (deepsvg.svglib): a loaded document is its         *)
(* bounding box and the operations applied to its paths.                   *)

Bbox(width, height) == <<width, height>>

Applied(svg, name, a) == [svg EXCEPT !.ops = Append(@, [op |-> name, arg |-> a])]

load_svg(f, p) ==
    LET node == f[Norm(p)] IN [id |-> node.id, bbox |-> node.bbox, ops |-> node.ops]

zoom(svg, factor) == Applied(svg, "zoom", <<factor>>)

normalize(svg, viewbox) == [Applied(svg, "normalize", viewbox) EXCEPT !.bbox = viewbox]

simplify_arcs(svg) == Applied(svg, "simplify_arcs", <<>>)

simplify_heuristic(svg) == Applied(svg, "simplify_heuristic", <<>>)

split(svg, max_dist) == Applied(svg, "split", <<max_dist>>)

save_svg(f, svg, p) ==
    Put(f, Norm(p), [kind |-> "doc", id |-> svg.id, bbox |-> svg.bbox, ops |-> svg.ops])

-----------------------------------------------------------------------------
(* What the environment does to one process_single_file call: "ok", or the *)
(* one step that fails.                                                    *)

Fates == {"ok", "pico_nonzero_empty", "pico_nonzero_partial", "pico_missing",
          "pico_empty", "load_exc", "zoom_exc", "normalize_exc",
          "simplify_arcs_exc", "simplify_heuristic_exc", "split_exc", "save_exc"}

\* one library call of process_svg: not reached once an earlier one raised;
\* result is what the call makes of st.svg when it does not raise
Call(st, name, result, fails) ==
    IF st.raised THEN st
    ELSE [svg |-> IF fails THEN st.svg ELSE result,
          raised |-> fails,
          trace |-> Append(st.trace, name)]

\* process_svg without the call of normalize
process_svg_NoNormalize(svg, scale, width, height, simplify, max_dist, fate) ==
    LET s0 == [svg |-> svg, raised |-> FALSE, trace |-> <<>>]
        s1 == Call(s0, "zoom", zoom(s0.svg, scale), fate = "zoom_exc")
        s3 == Call(s1, "simplify_arcs", simplify_arcs(s1.svg),
                   fate = "simplify_arcs_exc")
        s4 == Call(s3, "simplify_heuristic", simplify_heuristic(s3.svg),
                   fate = "simplify_heuristic_exc")
        s5 == Call(s4, "split", split(s4.svg, max_dist), fate = "split_exc")
    IN  IF simplify THEN s5 ELSE s1

\* process_svg with normalize called before zoom
process_svg_NormalizeFirst(svg, scale, width, height, simplify, max_dist, fate) ==
    LET s0 == [svg |-> svg, raised |-> FALSE, trace |-> <<>>]
        s1 == Call(s0, "normalize", normalize(s0.svg, Bbox(width, height)),
                   fate = "normalize_exc")
        s2 == Call(s1, "zoom", zoom(s1.svg, scale), fate = "zoom_exc")
        s3 == Call(s2, "simplify_arcs", simplify_arcs(s2.svg),
                   fate = "simplify_arcs_exc")
        s4 == Call(s3, "simplify_heuristic", simplify_heuristic(s3.svg),
                   fate = "simplify_heuristic_exc")
        s5 == Call(s4, "split", split(s4.svg, max_dist), fate = "split_exc")
    IN  IF simplify THEN s5 ELSE s2

process_svg(svg, scale, width, height, simplify, max_dist, fate) ==
    LET s0 == [svg |-> svg, raised |-> FALSE, trace |-> <<>>]
        s1 == Call(s0, "zoom", zoom(s0.svg, scale), fate = "zoom_exc")
        s2 == Call(s1, "normalize", normalize(s1.svg, Bbox(width, height)),
                   fate = "normalize_exc")
        s3 == Call(s2, "simplify_arcs", simplify_arcs(s2.svg),
                   fate = "simplify_arcs_exc")
        s4 == Call(s3, "simplify_heuristic", simplify_heuristic(s3.svg),
                   fate = "simplify_heuristic_exc")
        s5 == Call(s4, "split", split(s4.svg, max_dist), fate = "split_exc")
    IN  IF simplify THEN s5 ELSE s2

\* preprocess_svg: ret is "True", "False" or "raise" (an exception other than
\* CalledProcessError leaves the function)
preprocess_svg(f, input_path, output_path, fate) ==
    LET o == open_w(f, output_path)
        out == Norm(output_path)
    IN  IF o.raised
        THEN [fs |-> f, ret |-> "raise", trace |-> <<"open">>]
        ELSE IF fate = "pico_missing"
        THEN [fs |-> o.fs, ret |-> "raise", trace |-> <<"open", "picosvg">>]
        ELSE IF ~Readable(o.fs, input_path)
                \/ fate \in {"pico_nonzero_empty", "pico_nonzero_partial"}
        THEN [fs |-> IF fate = "pico_nonzero_partial"
                     THEN Put(o.fs, out, PartialNode) ELSE o.fs,
              ret |-> "False", trace |-> <<"open", "picosvg">>]
        ELSE IF fate = "pico_empty"
        THEN [fs |-> o.fs, ret |-> "True", trace |-> <<"open", "picosvg">>]
        ELSE [fs |-> Put(o.fs, out, [o.fs[Norm(input_path)] EXCEPT !.kind = "pico"]),
              ret |-> "True", trace |-> <<"open", "picosvg">>]

\* the except clause without its clean-up: the output file is kept
except_handler_NoRemove(f, output_path, trace) ==
    [fs |-> f, ret |-> "False", trace |-> Append(trace, "except")]

\* no except clause: the exception leaves process_single_file
except_handler_Reraise(f, output_path, trace) ==
    [fs |-> f, ret |-> "raise", trace |-> trace]

\* the except clause of process_single_file
except_handler(f, output_path, trace) ==
    IF os_path_exists(f, output_path)
    THEN LET r == os_remove(f, output_path)
         IN  [fs |-> r.fs, ret |-> IF r.raised THEN "raise" ELSE "False",
              trace |-> trace \o <<"except", "remove">>]
    ELSE [fs |-> f, ret |-> "False", trace |-> Append(trace, "except")]

\* lines 111-114: save the processed document
psf_save(f, svg, output_path, fate, trace) ==
    IF fate = "save_exc"
    THEN except_handler(Put(f, Norm(output_path), PartialNode), output_path,
                        Append(trace, "save_svg"))
    ELSE [fs |-> save_svg(f, svg, output_path), ret |-> "True",
          trace |-> Append(trace, "save_svg")]

\* lines 107-109: load the preprocessed file and transform it
psf_load(f, output_path, scale, width, height, simplify, max_dist, fate, trace) ==
    IF fate = "load_exc"
    THEN except_handler(f, output_path, Append(trace, "load_svg"))
    ELSE LET ps == process_svg(load_svg(f, output_path), scale, width, height,
                               simplify, max_dist, fate)
             t == Append(trace, "load_svg") \o ps.trace
         IN  IF ps.raised THEN except_handler(f, output_path, t)
             ELSE psf_save(f, ps.svg, output_path, fate, t)

\* lines 101-105: the emptiness check
psf_check_empty(f, output_path, scale, width, height, simplify, max_dist, fate, trace) ==
    IF os_path_getsize(f, output_path) = 0
    THEN LET rm == os_remove(f, output_path)
         IN  IF rm.raised
             THEN except_handler(f, output_path, trace \o <<"getsize", "empty", "remove">>)
             ELSE [fs |-> rm.fs, ret |-> "False",
                   trace |-> trace \o <<"getsize", "empty", "remove">>]
    ELSE psf_load(f, output_path, scale, width, height, simplify, max_dist, fate,
                  trace \o <<"getsize", "nonempty">>)

\* lines 96-99: preprocess with picosvg
psf_preprocess(f, input_path, output_path, scale, width, height, simplify, max_dist, fate) ==
    LET p == preprocess_svg(f, input_path, output_path, fate)
        t == <<"makedirs">> \o p.trace \o <<"preprocess_svg=" \o p.ret>>
    IN  IF p.ret = "raise" THEN except_handler(p.fs, output_path, t)
        ELSE IF p.ret = "False" THEN [fs |-> p.fs, ret |-> "False", trace |-> t]
        ELSE psf_check_empty(p.fs, output_path, scale, width, height, simplify,
                             max_dist, fate, t)

process_single_file(f, input_path, output_path, scale, width, height, simplify, max_dist, fate) ==
    LET d == dirname(output_path)
        m == os_makedirs(f, IF d = EMPTY THEN CURDIR ELSE d)
    IN  IF m.raised THEN except_handler(m.fs, output_path, <<"makedirs">>)
        ELSE psf_preprocess(m.fs, input_path, output_path, scale, width, height,
                            simplify, max_dist, fate)

-----------------------------------------------------------------------------
(* The command lines and the filesystems the program is started with.      *)

MaxScale == 2

DefaultScale == 1
DefaultWidth == 200
DefaultHeight == 200
DefaultMaxDist == 5

NAME_A == <<"a", ".", "s", "v", "g">>
NAME_B == <<"b", ".", "s", "v", "g">>
PATH_A == <<<<"i">>, NAME_A>>                   \* i/a.svg, an SVG file
PATH_N == <<<<"i">>, <<"n">>>>                  \* i/n, an SVG file without extension
PATH_DOTFILE == <<<<"i">>, <<".", "s">>>>       \* i/.s, which does not exist
PATH_OUT == <<<<"o">>, NAME_A>>                 \* o/a.svg, left by an earlier run
PATH_OUT_DIR == <<<<"o">>, <<>>>>               \* o/, a directory given as a file
DIR_I == <<<<"i">>>>                            \* i
DIR_I_SEP == <<<<"i">>, <<>>>>                  \* i/
DIR_O == <<<<"o">>>>                            \* o

Tree ==
    (<<>> :> DirNode)
    @@ (Norm(DIR_I) :> DirNode)
    @@ (Norm(PATH_A) :> SourceNode(1, <<24, 24>>))
    @@ (Norm(PATH_N) :> SourceNode(2, <<10, 20>>))
    @@ (<<<<"i">>, <<"d">>>> :> DirNode)
    @@ (<<<<"i">>, <<"d">>, NAME_B>> :> SourceNode(3, <<7, 5>>))
    @@ (Norm(DIR_O) :> DirNode)
    @@ (Norm(PATH_OUT) :> SourceNode(4, <<200, 200>>))

\* Tree with a directory where batch mode will want to write o/d/b.svg
TreeWithDir ==
    Tree
    @@ (<<<<"o">>, <<"d">>>> :> DirNode)
    @@ (<<<<"o">>, <<"d">>, NAME_B>> :> DirNode)

InitialTrees == {Tree, TreeWithDir}

Inputs == {None, PATH_A, PATH_N, PATH_DOTFILE}
Outputs == {None, PATH_OUT, PATH_A, PATH_OUT_DIR}
InputDirs == {None, DIR_I, DIR_I_SEP}
OutputDirs == {None, DIR_O, DIR_I, PATH_N}
Sizes == {<<DefaultWidth, DefaultHeight>>, <<3, 4>>}

\* the namespaces parse_args can return; --output is given only with --input,
\* and --output_dir without --input_dir is absent or o
ArgSpace ==
    {a \in [input : Inputs, output : Outputs, input_dir : InputDirs,
            output_dir : OutputDirs, scale : DefaultScale..MaxScale,
            width : {DefaultWidth, 3}, height : {DefaultHeight, 4},
            max_dist : {DefaultMaxDist}, simplify : BOOLEAN] :
        /\ <<a.width, a.height>> \in Sizes
        /\ a.input = None => a.output = None
        /\ a.input_dir = None => a.output_dir \in {None, DIR_O}}

NoCall == [input |-> None, output |-> None, ret |-> "none", trace |-> <<>>,
           existed |-> FALSE, simplify |-> FALSE, width |-> 0, height |-> 0]

Init ==
    /\ args \in ArgSpace
    /\ fs \in InitialTrees
    /\ fs0 = fs
    /\ pc = "start"
    /\ exit_status = -1
    /\ uncaught = FALSE
    /\ mode_run = "none"
    /\ success_count = 0
    /\ failure_count = 0
    /\ stack = <<>>
    /\ cur_root = None
    /\ cur_files = {}
    /\ attempted = {}
    /\ calls = 0
    /\ last = NoCall

-----------------------------------------------------------------------------
(* main *)

single_mode == args.input # None
batch_mode == args.input_dir # None

\* the record of one process_single_file call
CallRecord(f, input_path, output_path, r) ==
    [input |-> input_path, output |-> output_path, ret |-> r.ret, trace |-> r.trace,
     existed |-> IsFile(f, Norm(output_path)), simplify |-> args.simplify, width |-> args.width,
     height |-> args.height]

\* the suffix appended to the whole of args.input, after its extension
single_output_AfterExt ==
    IF args.output = None THEN Concat(args.input, PROCESSED_SUFFIX) ELSE args.output

\* args.output after the defaulting of single-file mode
single_output ==
    IF args.output = None
    THEN Concat(Concat(splitext(args.input)[1], PROCESSED_SUFFIX), splitext(args.input)[2])
    ELSE args.output

\* args.output_dir after the defaulting of batch mode
batch_output_dir ==
    IF args.output_dir = None THEN Concat(args.input_dir, PROCESSED_SUFFIX)
    ELSE args.output_dir

\* only the first parser.error check: both options together pass
arg_error_OnlyNeither == ~single_mode /\ ~batch_mode

\* the two parser.error checks: neither or both of --input and --input_dir
arg_error == (~single_mode /\ ~batch_mode) \/ (single_mode /\ batch_mode)

\* single-file mode without its exit(1)
single_exit_status_AlwaysZero(success) == 0

\* the exit status of single-file mode
single_exit_status(success) == IF success THEN 0 ELSE 1

\* parser.error prints the usage and exits with status 2
MainArgError ==
    /\ pc = "start"
    /\ arg_error
    /\ pc' = "exited"
    /\ exit_status' = 2
    /\ UNCHANGED <<args, fs, fs0, uncaught, mode_run, success_count, failure_count,
                   stack, cur_root, cur_files, attempted, calls, last>>

\* single-file mode, to the end of the process
MainSingle ==
    /\ pc = "start"
    /\ ~arg_error
    /\ single_mode
    /\ \E fate \in Fates :
         LET r == process_single_file(fs, args.input, single_output, args.scale,
                                      args.width, args.height, args.simplify,
                                      args.max_dist, fate)
         IN  /\ fs' = r.fs
             /\ last' = CallRecord(fs, args.input, single_output, r)
             /\ exit_status' = IF r.ret = "raise" THEN 1
                                ELSE single_exit_status(r.ret = "True")
             /\ uncaught' = (r.ret = "raise")
    /\ attempted' = attempted \cup {Norm(args.input)}
    /\ calls' = calls + 1
    /\ mode_run' = "single"
    /\ pc' = "exited"
    /\ UNCHANGED <<args, fs0, success_count, failure_count, stack, cur_root, cur_files>>

\* batch mode up to the first iteration of os.walk
MainBatch ==
    /\ pc = "start"
    /\ ~arg_error
    /\ ~single_mode
    /\ mode_run' = "batch"
    /\ LET m == os_makedirs(fs, batch_output_dir)
       IN  /\ fs' = m.fs
           /\ IF m.raised
              THEN /\ pc' = "exited"
                   /\ exit_status' = 1
                   /\ uncaught' = TRUE
                   /\ stack' = stack
              ELSE /\ pc' = "walk"
                   /\ stack' = <<args.input_dir>>
                   /\ UNCHANGED <<exit_status, uncaught>>
    /\ UNCHANGED <<args, fs0, success_count, failure_count, cur_root, cur_files,
                   attempted, calls, last>>

-----------------------------------------------------------------------------
(* process_directory *)

Perms(S) ==
    {q \in [1..Cardinality(S) -> S] : \A i, j \in 1..Cardinality(S) : q[i] = q[j] => i = j}

Children(f, n) == {x \in DOMAIN f : Len(x) = Len(n) + 1 /\ Parent(x) = n}

\* os.walk yields the next directory: its entries are listed now, its
\* subdirectories are visited after its files and before its siblings
WalkNext ==
    /\ pc = "walk"
    /\ cur_files = {}
    /\ stack # <<>>
    /\ LET top == Head(stack)
           n == Norm(top)
           entries == IF IsDir(fs, n) THEN Children(fs, n) ELSE {}
           subdirs == {<<Last(x)>> : x \in {e \in entries : fs[e].kind = "dir"}}
           files == {<<Last(x)>> : x \in {e \in entries : fs[e].kind # "dir"}}
       IN  /\ cur_root' = top
           /\ cur_files' = files
           /\ \E order \in Perms(subdirs) :
                stack' = [k \in 1..Len(order) |-> join(top, order[k])] \o Tail(stack)
    /\ UNCHANGED <<args, fs, fs0, pc, exit_status, uncaught, mode_run, success_count,
                   failure_count, attempted, calls, last>>

\* one iteration of the loop over files: a name that does not end in .svg
WalkSkip ==
    /\ pc = "walk"
    /\ \E filename \in cur_files :
         /\ ~endswith(filename, SVG_SUFFIX)
         /\ cur_files' = cur_files \ {filename}
    /\ UNCHANGED <<args, fs, fs0, pc, exit_status, uncaught, mode_run, success_count,
                   failure_count, stack, cur_root, attempted, calls, last>>

\* one iteration of the loop over files: an .svg file
WalkFile ==
    /\ pc = "walk"
    /\ \E filename \in cur_files, fate \in Fates :
         LET input_path == join(cur_root, filename)
             relative_path == relpath(input_path, args.input_dir)
             output_path == join(batch_output_dir, relative_path)
             r == process_single_file(fs, input_path, output_path, args.scale,
                                      args.width, args.height, args.simplify,
                                      args.max_dist, fate)
         IN  /\ endswith(filename, SVG_SUFFIX)
             /\ cur_files' = cur_files \ {filename}
             /\ fs' = r.fs
             /\ last' = CallRecord(fs, input_path, output_path, r)
             /\ attempted' = attempted \cup {Norm(input_path)}
             /\ calls' = calls + 1
             /\ success_count' = IF r.ret = "True" THEN success_count + 1
                                 ELSE success_count
             /\ failure_count' = IF r.ret = "False" THEN failure_count + 1
                                 ELSE failure_count
             /\ IF r.ret = "raise"
                THEN pc' = "exited" /\ exit_status' = 1 /\ uncaught' = TRUE
                ELSE UNCHANGED <<pc, exit_status, uncaught>>
    /\ UNCHANGED <<args, fs0, mode_run, stack, cur_root>>

\* os.walk is exhausted: process_directory returns and main prints the counts
WalkReturn ==
    /\ pc = "walk"
    /\ cur_files = {}
    /\ stack = <<>>
    /\ pc' = "exited"
    /\ exit_status' = 0
    /\ UNCHANGED <<args, fs, fs0, uncaught, mode_run, success_count, failure_count,
                   stack, cur_root, cur_files, attempted, calls, last>>

Next ==
    \/ MainArgError
    \/ MainSingle
    \/ MainBatch
    \/ WalkNext
    \/ WalkSkip
    \/ WalkFile
    \/ WalkReturn

Spec == Init /\ [][Next]_vars

-----------------------------------------------------------------------------
(* Properties *)

Range(q) == {q[i] : i \in DOMAIN q}

\* the regular files named *.svg below directory dir in filesystem f
SvgUnder(f, dir) ==
    {n \in DOMAIN f :
        /\ IsFile(f, n)
        /\ Len(n) > Len(Norm(dir))
        /\ SubSeq(n, 1, Len(Norm(dir))) = Norm(dir)
        /\ endswith(<<Last(n)>>, SVG_SUFFIX)}

\* the regular files that differ between the start and now
ChangedFiles ==
    {n \in DOMAIN fs \cup DOMAIN fs0 :
        /\ IsFile(fs, n) \/ IsFile(fs0, n)
        /\ n \notin DOMAIN fs \/ n \notin DOMAIN fs0 \/ fs[n] # fs0[n]}

\* the input files of the run
InputFiles ==
    IF mode_run = "single" THEN {n \in {Norm(args.input)} : IsFile(fs0, n)}
    ELSE IF mode_run = "batch" THEN SvgUnder(fs0, args.input_dir)
    ELSE {}

\* the last call ran picosvg and it did not succeed: it exited non-zero
\* or could not be started
PreprocessingFailed(c) ==
    /\ "picosvg" \in Range(c.trace)
    /\ "preprocess_svg=True" \notin Range(c.trace)

\* the failures of one file that batch mode names: picosvg exits non-zero,
\* its output is empty, or load, a transformation or save raises
ListedFailure(c) ==
    \/ "preprocess_svg=False" \in Range(c.trace)
    \/ "empty" \in Range(c.trace)
    \/ "load_svg" \in Range(c.trace) /\ c.ret # "True"

PipelineOps == {"picosvg", "getsize", "load_svg", "zoom", "normalize",
                "simplify_arcs", "simplify_heuristic", "split", "save_svg"}

\* the fixed order of the operations on one file
PipelineOrder(simplify) ==
    <<"picosvg", "getsize", "load_svg", "zoom", "normalize">>
    \o (IF simplify THEN <<"simplify_arcs", "simplify_heuristic", "split">> ELSE <<>>)
    \o <<"save_svg">>

IsPrefix(a, b) == Len(a) <= Len(b) /\ SubSeq(b, 1, Len(a)) = a

\* C1: whenever the external preprocessing of a file fails (picosvg exits
\* non-zero or cannot be run) and process_single_file has returned False, no
\* file exists at the output path.
C1_NoOutputAfterFailedPreprocessing ==
    (last.ret = "False" /\ PreprocessingFailed(last))
        => ~os_path_exists(fs, last.output)

\* C2: when process_directory has returned, success_count + failure_count is
\* the number of .svg files that were under the input directory when the walk
\* started, and each of them was handed to process_single_file exactly once.
C2_CountsEqualSvgFilesAtStart ==
    (pc = "exited" /\ mode_run = "batch" /\ exit_status = 0)
        => /\ success_count + failure_count
                = Cardinality(SvgUnder(fs0, args.input_dir))
           /\ attempted = SvgUnder(fs0, args.input_dir)
           /\ calls = Cardinality(attempted)

\* C3: in batch mode a file that fails in one of the named ways makes
\* process_single_file return False, never raise; a file that returns False
\* adds one to failure_count only, a file that returns True adds one to
\* success_count only, and either way the walk goes on with every file and
\* directory it still had to visit; process_directory returns only when
\* nothing is left to visit.
C3_FailureDoesNotStopWalk ==
    [][/\ (mode_run = "batch" /\ calls' = calls + 1) =>
            /\ ListedFailure(last') => last'.ret = "False"
            /\ last'.ret \in {"True", "False"} =>
                 /\ pc' = "walk" /\ ~uncaught' /\ exit_status' = -1
                 /\ stack' = stack
                 /\ \E name \in cur_files :
                        /\ Norm(last'.input) = Norm(join(cur_root, name))
                        /\ cur_files' = cur_files \ {name}
                 /\ success_count' = success_count
                        + (IF last'.ret = "True" THEN 1 ELSE 0)
                 /\ failure_count' = failure_count
                        + (IF last'.ret = "False" THEN 1 ELSE 0)
       /\ (pc = "walk" /\ pc' = "exited" /\ ~uncaught') =>
            /\ cur_files = {} /\ stack = <<>>
            /\ exit_status' = 0
            /\ success_count' + failure_count' = calls']_vars

C3_Witness ==
    /\ pc = "exited" /\ mode_run = "batch" /\ exit_status = 0
    /\ failure_count >= 1
    /\ last.ret = "True"

\* C4: in single-file mode the process exits with status 1 when
\* process_single_file returns False and with another status when it
\* returns True.
C4_SingleExitStatus ==
    (pc = "exited" /\ mode_run = "single")
        => /\ last.ret = "False" => exit_status = 1
           /\ last.ret = "True" => exit_status # 1

C4_Witness ==
    pc = "exited" /\ mode_run = "single" /\ last.ret = "False" /\ exit_status = 1

\* C5: single-file mode without --output hands process_single_file the path
\* <base>_processed<ext>, (base, ext) being the split of --input at its
\* extension; that path is in the directory of the input and is not the
\* input; no other file is created, changed or deleted; on success the file
\* there is the processed document of the input.
C5_DefaultOutputIsSibling ==
    (pc = "exited" /\ mode_run = "single" /\ args.output = None)
        => LET base == splitext(args.input)[1]
               ext == splitext(args.input)[2]
               expected == Concat(Concat(base, PROCESSED_SUFFIX), ext)
           IN  /\ Concat(base, ext) = args.input
               /\ last.output = expected
               /\ Front(Norm(expected)) = Front(Norm(args.input))
               /\ Norm(expected) # Norm(args.input)
               /\ ChangedFiles \subseteq {Norm(expected)}
               /\ last.ret = "True" =>
                    /\ IsFile(fs, Norm(expected))
                    /\ fs[Norm(expected)].kind = "doc"
                    /\ fs[Norm(expected)].id = fs0[Norm(args.input)].id

C5_Witness ==
    /\ pc = "exited" /\ mode_run = "single" /\ args.output = None
    /\ args.input = PATH_A
    /\ last.ret = "True"
    /\ last.output = <<<<"i">>, <<"a">> \o PROCESSED_SUFFIX[1] \o SVG_SUFFIX[1]>>

\* C6: with both or neither of --input and --input_dir main exits with the
\* argument error and has called neither process_single_file nor
\* process_directory, the filesystem being as it was; with exactly one of
\* them the mode that ran is the one of that option.
C6_ModesExclusive ==
    LET one == (args.input # None) # (args.input_dir # None)
    IN  /\ (mode_run # "none" \/ calls > 0 \/ fs # fs0) => one
        /\ pc = "exited" =>
             IF one
             THEN mode_run = (IF args.input # None THEN "single" ELSE "batch")
             ELSE exit_status = 2 /\ mode_run = "none" /\ calls = 0 /\ fs = fs0

C6_Witness ==
    /\ pc = "exited" /\ exit_status = 2
    /\ args.input # None /\ args.input_dir # None /\ args.output # None

C8_FailureAfterPreprocessingCleansUp ==
    ("preprocess_svg=True" \in Range(last.trace) /\ last.ret # "True")
        => /\ last.ret = "False"
           /\ ~os_path_exists(fs, last.output)

C8_Witness ==
    /\ last.ret = "False"
    /\ "save_svg" \in Range(last.trace)
    /\ last.existed

\* C9: the operations on one file are called in the fixed order picosvg,
\* emptiness check, load, zoom, normalize, then with simplify
\* simplify_arcs, simplify_heuristic, split, and save; load is reached only
\* after preprocessing returned True and the file was found non-empty;
\* nothing but the clean-up follows an exception; and the call returns True
\* exactly when the whole order was run without one.
C9_FixedOrder ==
    LET t == last.trace
        ops == SelectSeq(t, LAMBDA x : x \in PipelineOps)
    IN  last.ret # "none" =>
          /\ IsPrefix(ops, PipelineOrder(last.simplify))
          /\ "load_svg" \in Range(t) =>
               \E i, j \in DOMAIN t :
                  /\ i < j
                  /\ t[i] = "preprocess_svg=True"
                  /\ t[j] = "nonempty"
                  /\ \A k \in DOMAIN t : t[k] = "load_svg" => j < k
          /\ \A i, j \in DOMAIN t : (i < j /\ t[i] = "except") => t[j] = "remove"
          /\ last.ret = "True" <=>
               (ops = PipelineOrder(last.simplify) /\ "except" \notin Range(t))

C9_Witness ==
    /\ last.ret = "True" /\ last.simplify
    /\ SelectSeq(last.trace, LAMBDA x : x \in PipelineOps) = PipelineOrder(TRUE)

\* C10: when the process has ended every input file is there with the
\* content it had at the start.
C10_InputsUntouched ==
    pc = "exited" => \A n \in InputFiles : n \in DOMAIN fs /\ fs[n] = fs0[n]

=============================================================================
